---- MODULE Spec2Model ----
(***************************************************************************)
(* fw-warden (src/main.py): one batch pass over the firewall log per run.  *)
(* A run loads the state snapshot and the audit ledger, reads the log from *)
(* the persisted offset, blocks keys on the geo path and on the drop-rate  *)
(* path through the Proxmox rule store, sweeps expired temporary blocks,   *)
(* and writes the snapshot and then the ledger.                            *)
(*                                                                         *)
(* Time is in seconds (the resolution of the log's timestamps).  A byte    *)
(* offset is counted in whole lines.  A key "vmid:src_ip" is the pair      *)
(* <<vmid, src_ip>>.  Python's None is the empty tuple, and an optional    *)
(* value v is <<v>>, so that None compares with every value.               *)
(***************************************************************************)
EXTENDS Integers, Sequences, FiniteSets, TLC

\* ------------------------------------------------------------ bounds
\* Lines the firewall appends to the log in one behaviour.
MaxAppend == 2
\* Clock advances in one behaviour.
MaxTicks == 1
\* Process terminations in one behaviour (SpecKill only).
MaxKills == 1

\* The highest identity a log file gets (SpecRotate only).
MaxInode == 2

\* ------------------------------------------------- program constants
\* deque(maxlen=5), and len(...) == 5
WINDOW_LEN == 5
\* time_diff <= 5 (minutes)
WINDOW_SPAN == 300
\* timedelta(hours=1)
SHORT_BLOCK == 3600
\* timedelta(days=7)
LONG_BLOCK == 604800
\* previous_blocks >= 7
PERMANENT_AFTER == 7
\* previous_blocks >= 5
LONG_AFTER == 5

\* ------------------------------------------------------- environment
None == <<>>
Some(v) == <<v>>

Vmids == {100, 101}
Sources == {"A", "B"}
Verdicts == {"DROP:", "ACCEPT:"}
Keys == Vmids \X Sources
\* What the firewall logs: drops of "A" on both targets, an accepted
\* connection of "A", and a drop of "B".
Traffic == {<<100, "A", "DROP:">>, <<101, "A", "DROP:">>, <<100, "A", "ACCEPT:">>,
            <<100, "B", "DROP:">>}

\* The clock at the start of a behaviour, after every earlier block expired.
T0 == 2 * LONG_BLOCK
\* How far one clock advance goes: an hour, a week.
TickSteps == {SHORT_BLOCK, LONG_BLOCK}
\* Audit entries for source "A" that earlier runs left in the ledger.
PriorCounts == {4, 5, 6, 7}

\* The GeoIP database: "A" resolves to an allowed country, "B" to one that
\* is not allowed.
GeoDb == [s \in Sources |-> IF s = "A" THEN Some("US") ELSE Some("RU")]
allowed_countries == {"US"}

get_country(ip) == IF ip \in DOMAIN GeoDb THEN GeoDb[ip] ELSE None

\* The addresses ipaddress.ip_address accepts; "C" is in no GeoIP record.
Addresses == Sources \cup {"C"}

\* A field of line.split(): a run of digits, a date "dd/Mon/yyyy:HH:MM:SS"
\* as the local time it names, a zone "+hhmm" as its offset in seconds, a
\* token "SRC=..." with the text after the marker, or any other text.
Digits(n) == <<"digits", n>>
DateField(t) == <<"date", t>>
ZoneField(offset) == <<"zone", offset>>
SrcField(a) == <<"SRC=", a>>
Text(s) == <<"text", s>>

\* The zone the firewall stamps its lines with (-0600).
LogZone == 0 - 6 * 3600

\* datetime.min and datetime.max: the model's time starts at datetime.min.
DATETIME_MIN == 0
DATETIME_MAX == 100 * LONG_BLOCK

\* A log line is the sequence of its fields: a policy line as the firewall
\* writes it, or a line of another shape.
Junk == <<Text("Some"), Text("invalid"), Text("log"), Text("line")>>
PolicyLine(vmid, src, ts, action) ==
    <<Digits(vmid), Digits(6), Text("tap"), DateField(ts + LogZone), ZoneField(LogZone),
      Text("policy"), Text(action), Text("IN="), Text("OUT="), SrcField(src)>>

\* What a call leaves when it raises an exception nobody catches.
Raised == <<"raise", "OverflowError">>
IsEvent(r) == Len(r) = 1

\* line 67: strptime raises ValueError unless the two fields are a date and
\* a zone
IsTimestamp(d, z) == d[1] = "date" /\ z[1] = "zone"

\* line 68: astimezone(pytz.utc) subtracts the offset, and raises
\* OverflowError when the result leaves datetime's range
InRange(t) == DATETIME_MIN <= t /\ t <= DATETIME_MAX

\* lines 71-76: the first "SRC=" token from parts[7] on; 0 when there is none
RECURSIVE SrcFrom(_, _)
SrcFrom(parts, i) ==
    IF i > Len(parts) THEN 0
    ELSE IF parts[i][1] = "SRC=" THEN i
    ELSE SrcFrom(parts, i + 1)
FirstSrc(parts) == SrcFrom(parts, 8)

\* lines 51-82; fields are counted from 1 here, from 0 in the source
parse_log_line(parts) ==
    IF Len(parts) < 10 THEN None
    ELSE IF parts[6] # Text("policy") THEN None
    ELSE IF parts[1][1] # "digits" THEN None
    ELSE IF ~(parts[7][1] = "text" /\ parts[7][2] \in Verdicts) THEN None
    ELSE IF ~IsTimestamp(parts[4], parts[5]) THEN None
    ELSE LET timestamp == parts[4][2] - parts[5][2]
             src == FirstSrc(parts)
         IN  IF ~InRange(timestamp) THEN Raised
             ELSE IF src = 0 THEN None
             ELSE IF parts[src][2] \notin Addresses THEN None
             ELSE Some([vmid |-> parts[1][2], src_ip |-> parts[src][2],
                        timestamp |-> timestamp, action |-> parts[7][2]])

Key(vmid, src) == <<vmid, src>>

\* ------------------------------------------------------ serialization
\* datetime.isoformat() and datetime.fromisoformat()
Iso(t) == <<"iso", t>>
FromIso(s) == s[2]

\* ------------------------------------------------------------ helpers
Put(f, k, v) == [x \in (DOMAIN f) \cup {k} |-> IF x = k THEN v ELSE f[x]]
Del(f, k) == [x \in (DOMAIN f) \ {k} |-> f[x]]
Get(f, k, d) == IF k \in DOMAIN f THEN f[k] ELSE d

LastN(s, n) == IF Len(s) > n THEN SubSeq(s, Len(s) - n + 1, Len(s)) ELSE s

\* deque(maxlen=5).append
DequeAppend(d, x) == LastN(Append(d, x), WINDOW_LEN)

RECURSIVE CountSrc(_, _)
CountSrc(entries, ip) ==
    IF entries = <<>> THEN 0
    ELSE (IF entries[Len(entries)].src_ip = ip THEN 1 ELSE 0)
         + CountSrc(SubSeq(entries, 1, Len(entries) - 1), ip)

VARIABLES
    \* the world outside the process
    log, logInode, ruleStore, now,
    \* the files the process owns
    stateFile, trackingFile,
    \* the process
    pc, drops, blocked, tracking_events, block_counts, current_inode, position,
    sweep_now, sweepTodo,
    \* fresh values
    nextRule, nextUuid,
    \* bookkeeping of the behaviour
    calls, appended, ticks, kills, interrupted,
    \* how many times a run handled a line of the current log file
    handled

vars == <<log, logInode, ruleStore, now, stateFile, trackingFile,
          pc, drops, blocked, tracking_events, block_counts, current_inode, position,
          sweep_now, sweepTodo, nextRule, nextUuid,
          calls, appended, ticks, kills, interrupted, handled>>

world == <<log, logInode, ruleStore, now>>
files == <<stateFile, trackingFile>>
memory == <<drops, blocked, tracking_events, block_counts, current_inode, position,
            sweep_now, sweepTodo>>
fresh == <<nextRule, nextUuid>>
env == <<appended, ticks, kills, interrupted>>

\* ------------------------------------------------------ state snapshot
\* The state a run starts from when STATE_FILE does not exist.
DefaultState ==
    [drops |-> <<>>, blocked |-> <<>>, log_file_inode |-> None, log_file_position |-> 0]

NoFile == [exists |-> FALSE]
\* A file that json.load rejects: cut short while it was written, or empty.
Corrupt == [exists |-> TRUE, corrupt |-> TRUE]
IsCorrupt(file) == IF file.exists THEN "corrupt" \in DOMAIN file ELSE FALSE

\* LoadBlocked with the flag assigned where the source only fills it in.
LoadBlocked_FlagReset(b) ==
    [rule_index |-> b.rule_index,
     expiration |-> IF b.expiration # None THEN Some(FromIso(b.expiration)) ELSE None,
     unique_id |-> b.unique_id,
     permanent |-> FALSE]

\* lines 104-108
LoadBlocked(b) ==
    [rule_index |-> b.rule_index,
     expiration |-> IF b.expiration # None THEN Some(FromIso(b.expiration)) ELSE None,
     unique_id |-> b.unique_id,
     permanent |-> IF "permanent" \in DOMAIN b THEN b.permanent ELSE FALSE]

LoadWindow(w) == LastN([i \in 1..Len(w) |-> FromIso(w[i])], WINDOW_LEN)

LoadState(file) ==
    IF file.exists
    THEN [drops |-> [k \in DOMAIN file.drops |-> LoadWindow(file.drops[k])],
          blocked |-> [k \in DOMAIN file.blocked |-> LoadBlocked(file.blocked[k])],
          log_file_inode |-> file.log_file_inode,
          log_file_position |-> file.log_file_position]
    ELSE DefaultState

SaveBlocked(v) ==
    [rule_index |-> v.rule_index,
     expiration |-> IF v.expiration # None THEN Iso(v.expiration[1]) ELSE None,
     unique_id |-> v.unique_id,
     permanent |-> v.permanent]

SaveWindow(d) == [i \in 1..Len(d) |-> Iso(d[i])]

state_to_save ==
    [exists |-> TRUE,
     log_file_inode |-> Some(current_inode),
     log_file_position |-> position,
     drops |-> [k \in DOMAIN drops |-> SaveWindow(drops[k])],
     blocked |-> [k \in DOMAIN blocked |-> SaveBlocked(blocked[k])]]

\* --------------------------------------------------------- audit ledger
\* LoadTracking that starts every run from an empty ledger.
LoadTracking_Fresh(file) == <<>>

\* lines 118-125: no file, or a file json.load rejects, is an empty ledger
LoadTracking(file) == IF file.exists /\ ~IsCorrupt(file) THEN file.entries ELSE <<>>

\* jq 'group_by(.src_ip) | map({ip: .[0].src_ip, count: length})' on the
\* ledger file; jq fails on a file that does not exist or is no JSON.
JqBlockCounts(file) ==
    IF file.exists /\ ~IsCorrupt(file)
    THEN [ip \in {file.entries[i].src_ip : i \in 1..Len(file.entries)} |->
             CountSrc(file.entries, ip)]
    ELSE <<>>

\* ------------------------------------------------------------- policy
\* GeoDisallowed with a source of no known country treated as disallowed.
GeoDisallowed_UnknownToo(country) ==
    IF country = None THEN TRUE ELSE country[1] \notin allowed_countries

\* line 158
GeoDisallowed(country) == country # None /\ country[1] \notin allowed_countries

\* GeoEligible without the look at the key's BlockRecord.
GeoEligible_Unguarded(blk, key) == TRUE

\* line 159
GeoEligible(blk, key) == IF key \in DOMAIN blk THEN ~blk[key].permanent ELSE TRUE

\* line 187
DropEligible(blk, key, action) ==
    action = "DROP:" /\ ~(IF key \in DOMAIN blk THEN blk[key].permanent ELSE FALSE)

\* Fires with the span read as "less than 5 minutes".
Fires_Strict(window) ==
    /\ Len(window) = WINDOW_LEN
    /\ window[Len(window)] - window[1] < WINDOW_SPAN

\* lines 191-193
Fires(window) ==
    /\ Len(window) = WINDOW_LEN
    /\ window[Len(window)] - window[1] <= WINDOW_SPAN

\* Expiration with its first threshold read as "more than".
Expiration_Strict(previous_blocks, t) ==
    IF previous_blocks > PERMANENT_AFTER THEN None
    ELSE IF previous_blocks >= LONG_AFTER THEN Some(t + LONG_BLOCK)
    ELSE Some(t + SHORT_BLOCK)

\* lines 205-210
Expiration(previous_blocks, t) ==
    IF previous_blocks >= PERMANENT_AFTER THEN None
    ELSE IF previous_blocks >= LONG_AFTER THEN Some(t + LONG_BLOCK)
    ELSE Some(t + SHORT_BLOCK)

\* IsExpired with an expiration that is due at the sweep's time itself.
IsExpired_Inclusive(b, t) == ~b.permanent /\ b.expiration # None /\ b.expiration[1] <= t

\* line 234
IsExpired(b, t) == ~b.permanent /\ b.expiration # None /\ b.expiration[1] < t

\* lines 170-175
GeoRecord(response, unique_id) ==
    [rule_index |-> response, expiration |-> None,
     unique_id |-> unique_id, permanent |-> TRUE]

\* lines 176-184
GeoEntry(vmid, src_ip, response, unique_id, t) ==
    [timestamp |-> Iso(t), vmid |-> vmid, src_ip |-> src_ip, unique_id |-> unique_id,
     rule_index |-> response, expiration |-> <<"permanent">>,
     reason |-> "disallowed country"]

\* DropRecord with the flag left at its default.
DropRecord_Unflagged(response, unique_id, expiration) ==
    [rule_index |-> response, expiration |-> expiration,
     unique_id |-> unique_id, permanent |-> FALSE]

\* lines 211-216
DropRecord(response, unique_id, expiration) ==
    [rule_index |-> response, expiration |-> expiration,
     unique_id |-> unique_id, permanent |-> (expiration = None)]

\* lines 217-226
DropEntry(vmid, src_ip, response, unique_id, expiration, previous_blocks, t) ==
    [timestamp |-> Iso(t), vmid |-> vmid, src_ip |-> src_ip, unique_id |-> unique_id,
     rule_index |-> response,
     expiration |-> IF expiration # None THEN Iso(expiration[1]) ELSE <<"permanent">>,
     reason |-> "multiple drops", previous_blocks |-> previous_blocks]

\* BlockedAfterPost with the record written before the call's outcome is known.
BlockedAfterPost_Early(ok, blk, key, rec) == Put(blk, key, rec)

\* The rule store's answer decides what the try block leaves behind: the
\* assignments after rules.post run only when it did not raise.
BlockedAfterPost(ok, blk, key, rec) == IF ok THEN Put(blk, key, rec) ELSE blk
TrackingAfterPost(ok, events, entry) == IF ok THEN Append(events, entry) ELSE events

\* lines 236-239: the two del statements run only when rules.delete did not raise.
BlockedAfterDelete(ok, blk, key) == IF ok THEN Del(blk, key) ELSE blk
DropsAfterDelete(ok, d, key) == IF ok THEN Del(d, key) ELSE d

\* --------------------------------------------------------- rule store
\* PROXMOX.nodes(NODE).qemu(vmid).firewall.rules: post adds a rule and
\* answers with its reference, delete removes the rule with that reference.
StoreRule(vmid, src_ip, index) == [vmid |-> vmid, source |-> src_ip, index |-> index]
StoreAfterPost(ok, store, vmid, src_ip, index) ==
    IF ok THEN store \cup {StoreRule(vmid, src_ip, index)} ELSE store
StoreAfterDelete(ok, store, vmid, index) ==
    IF ok THEN {r \in store : ~(r.vmid = vmid /\ r.index = index)} ELSE store

Call(op, key, ok, path, rule) ==
    [op |-> op, key |-> key, ok |-> ok, path |-> path, rule |-> rule]

\* --------------------------------------------------------------- Init
\* An audit entry an earlier run wrote for a drop-rate block of "A" on 100.
PriorEntry(i) == DropEntry(100, "A", i, i, Expiration(i - 1, i), i - 1, i)

\* Four drops of "A" on each target, the oldest WINDOW_SPAN before T0.
PriorWindow == <<T0 - WINDOW_SPAN, T0 - 200, T0 - 100, T0 - 50>>

\* A first installation: no snapshot, no ledger, an empty log.
InitFresh ==
    /\ stateFile = NoFile
    /\ trackingFile = NoFile
    /\ nextRule = 1
    /\ nextUuid = 1

\* After earlier completed runs: n blocks of "A" that expired and were swept,
\* four drops in each window of "A", the log rotated and read to its end.
InitSeasoned(n) ==
    /\ stateFile = [exists |-> TRUE,
                    log_file_inode |-> Some(1),
                    log_file_position |-> 0,
                    drops |-> [k \in {Key(v, "A") : v \in Vmids} |-> SaveWindow(PriorWindow)],
                    blocked |-> <<>>]
    /\ trackingFile = [exists |-> TRUE, entries |-> [i \in 1..n |-> PriorEntry(i)]]
    /\ nextRule = n + 1
    /\ nextUuid = n + 1

\* No process is running: there is no memory to speak of.
NoProcess ==
    /\ drops = <<>>
    /\ blocked = <<>>
    /\ tracking_events = <<>>
    /\ block_counts = <<>>
    /\ current_inode = 0
    /\ position = 0
    /\ sweep_now = 0
    /\ sweepTodo = {}
    /\ calls = <<>>

\* The process exits or is terminated: its memory is gone.
Exit ==
    /\ drops' = <<>>
    /\ blocked' = <<>>
    /\ tracking_events' = <<>>
    /\ block_counts' = <<>>
    /\ current_inode' = 0
    /\ position' = 0
    /\ sweep_now' = 0
    /\ sweepTodo' = {}
    /\ calls' = <<>>

Init ==
    /\ log = <<>>
    /\ logInode = 1
    /\ ruleStore = {}
    /\ now = T0
    /\ (InitFresh \/ \E n \in PriorCounts : InitSeasoned(n))
    /\ pc = "idle"
    /\ NoProcess
    /\ appended = 0
    /\ ticks = 0
    /\ kills = 0
    /\ interrupted = {}
    /\ handled = 0

\* -------------------------------------------------------- environment
\* The clock moves by hours and a run takes far less: the clock and the log
\* move between runs.  (The process reads neither after it reached the end
\* of the file, and a line written while it reads is read like an older one.)
Observing == pc = "idle"

\* The firewall writes a line, stamped with the current time.
AppendLine ==
    /\ Observing
    /\ appended < MaxAppend
    /\ \E l \in {Junk} \cup {PolicyLine(t[1], t[2], now, t[3]) : t \in Traffic} :
           log' = Append(log, l)
    /\ appended' = appended + 1
    /\ UNCHANGED <<logInode, ruleStore, now, files, pc, memory, fresh, calls,
                   ticks, kills, interrupted, handled>>

Tick ==
    /\ Observing
    /\ ticks < MaxTicks
    /\ \E d \in TickSteps : now' = now + d
    /\ ticks' = ticks + 1
    /\ UNCHANGED <<log, logInode, ruleStore, files, pc, memory, fresh, calls,
                   appended, kills, interrupted, handled>>

\* LogAvailable with the failure of os.stat swallowed.
LogAvailable_Always == TRUE

\* line 141, line 144: os.stat and open answer; identity 0 stands for a
\* LOG_FILE on which they raise (no such file, no permission).
LogAvailable == logInode # 0

\* ---------------------------------------------------------------- run
\* lines 95-146: load the snapshot and the ledger, count blocks per source,
\* find the offset to read from.
StartRun ==
    /\ pc = "idle"
    /\ ~IsCorrupt(stateFile)
    /\ LogAvailable
    /\ LET state == LoadState(stateFile) IN
        /\ drops' = state.drops
        /\ blocked' = state.blocked
        /\ position' = IF state.log_file_inode = Some(logInode)
                        THEN state.log_file_position ELSE 0
    /\ tracking_events' = LoadTracking(trackingFile)
    /\ block_counts' = JqBlockCounts(trackingFile)
    /\ current_inode' = logInode
    /\ pc' = "read"
    /\ UNCHANGED <<world, files, sweep_now, sweepTodo, fresh, calls, env, handled>>

\* f.readline() answers a line
HasLine == pc = "read" /\ position < Len(log)
line == log[position + 1]
parsed == parse_log_line(line)[1]
key == Key(parsed.vmid, parsed.src_ip)
TakesGeoPath == GeoDisallowed(get_country(parsed.src_ip))

\* lines 151-152, 229: a line that is no policy line
SkipLine ==
    /\ HasLine
    /\ parse_log_line(line) = None
    /\ position' = position + 1
    /\ handled' = handled + 1
    /\ UNCHANGED <<world, files, pc, drops, blocked, tracking_events, block_counts,
                   current_inode, sweep_now, sweepTodo, fresh, calls, env>>

\* lines 158-186: a disallowed country and no permanent block of the key
GeoBlock ==
    /\ HasLine
    /\ IsEvent(parse_log_line(line))
    /\ TakesGeoPath
    /\ GeoEligible(blocked, key)
    /\ \E ok \in BOOLEAN :
        LET unique_id == nextUuid
            response == nextRule
        IN  /\ ruleStore' = StoreAfterPost(ok, ruleStore, parsed.vmid, parsed.src_ip, response)
            /\ blocked' = BlockedAfterPost(ok, blocked, key, GeoRecord(response, unique_id))
            /\ tracking_events' = TrackingAfterPost(ok, tracking_events,
                   GeoEntry(parsed.vmid, parsed.src_ip, response, unique_id, now))
            /\ nextRule' = IF ok THEN nextRule + 1 ELSE nextRule
            /\ nextUuid' = nextUuid + 1
            /\ calls' = Append(calls, Call("create", key, ok, "geo", response))
    /\ position' = position + 1
    /\ handled' = handled + 1
    /\ UNCHANGED <<log, logInode, now, files, pc, drops, block_counts, current_inode,
                   sweep_now, sweepTodo, env>>

\* lines 158-159: a disallowed country, the key permanently blocked
GeoAlreadyPermanent ==
    /\ HasLine
    /\ IsEvent(parse_log_line(line))
    /\ TakesGeoPath
    /\ ~GeoEligible(blocked, key)
    /\ position' = position + 1
    /\ handled' = handled + 1
    /\ UNCHANGED <<world, files, pc, drops, blocked, tracking_events, block_counts,
                   current_inode, sweep_now, sweepTodo, fresh, calls, env>>

\* lines 187-193: a drop lands in the window, which does not fire
DropObserve ==
    /\ HasLine
    /\ IsEvent(parse_log_line(line))
    /\ ~TakesGeoPath
    /\ DropEligible(blocked, key, parsed.action)
    /\ LET window == DequeAppend(Get(drops, key, <<>>), parsed.timestamp) IN
        /\ ~Fires(window)
        /\ drops' = Put(drops, key, window)
    /\ position' = position + 1
    /\ handled' = handled + 1
    /\ UNCHANGED <<world, files, pc, blocked, tracking_events, block_counts,
                   current_inode, sweep_now, sweepTodo, fresh, calls, env>>

\* lines 187-228: a drop lands in the window, which fires
DropBlock ==
    /\ HasLine
    /\ IsEvent(parse_log_line(line))
    /\ ~TakesGeoPath
    /\ DropEligible(blocked, key, parsed.action)
    /\ LET window == DequeAppend(Get(drops, key, <<>>), parsed.timestamp) IN
        /\ Fires(window)
        /\ drops' = Put(drops, key, window)
    /\ \E ok \in BOOLEAN :
        LET unique_id == nextUuid
            response == nextRule
            previous_blocks == Get(block_counts, parsed.src_ip, 0)
            expiration == Expiration(previous_blocks, now)
        IN  /\ ruleStore' = StoreAfterPost(ok, ruleStore, parsed.vmid, parsed.src_ip, response)
            /\ blocked' = BlockedAfterPost(ok, blocked, key,
                   DropRecord(response, unique_id, expiration))
            /\ tracking_events' = TrackingAfterPost(ok, tracking_events,
                   DropEntry(parsed.vmid, parsed.src_ip, response, unique_id,
                             expiration, previous_blocks, now))
            /\ nextRule' = IF ok THEN nextRule + 1 ELSE nextRule
            /\ nextUuid' = nextUuid + 1
            /\ calls' = Append(calls, Call("create", key, ok, "drop", response))
    /\ position' = position + 1
    /\ handled' = handled + 1
    /\ UNCHANGED <<log, logInode, now, files, pc, block_counts, current_inode,
                   sweep_now, sweepTodo, env>>

\* line 187 false: an ACCEPT, or a drop of a permanently blocked key
NoAction ==
    /\ HasLine
    /\ IsEvent(parse_log_line(line))
    /\ ~TakesGeoPath
    /\ ~DropEligible(blocked, key, parsed.action)
    /\ position' = position + 1
    /\ handled' = handled + 1
    /\ UNCHANGED <<world, files, pc, drops, blocked, tracking_events, block_counts,
                   current_inode, sweep_now, sweepTodo, fresh, calls, env>>

\* line 151: parse_log_line raises, nothing catches it, and the process
\* ends with a traceback on this line
ParseRaises ==
    /\ HasLine
    /\ parse_log_line(line) = Raised
    /\ pc' = "aborted"
    /\ Exit
    /\ UNCHANGED <<world, files, fresh, env, handled>>

\* lines 149-150, 232-233: end of file; the sweep reads the clock once and
\* walks a copy of the blocked keys
EndOfFile ==
    /\ pc = "read"
    /\ position >= Len(log)
    /\ sweep_now' = now
    /\ sweepTodo' = DOMAIN blocked
    /\ pc' = "sweep"
    /\ UNCHANGED <<world, files, drops, blocked, tracking_events, block_counts,
                   current_inode, position, fresh, calls, env, handled>>

\* lines 234-241: an expired temporary block, its rule deleted or not
SweepExpired ==
    /\ pc = "sweep"
    /\ \E k \in sweepTodo :
        /\ IsExpired(blocked[k], sweep_now)
        /\ \E ok \in BOOLEAN :
            /\ ruleStore' = StoreAfterDelete(ok, ruleStore, k[1], blocked[k].rule_index)
            /\ blocked' = BlockedAfterDelete(ok, blocked, k)
            /\ drops' = DropsAfterDelete(ok, drops, k)
            /\ calls' = Append(calls, Call("delete", k, ok, "sweep", blocked[k].rule_index))
        /\ sweepTodo' = sweepTodo \ {k}
    /\ UNCHANGED <<log, logInode, now, files, pc, tracking_events, block_counts,
                   current_inode, position, sweep_now, fresh, env, handled>>

\* line 234 false: a permanent block, or one that has not expired
SweepKeep ==
    /\ pc = "sweep"
    /\ \E k \in sweepTodo :
        /\ ~IsExpired(blocked[k], sweep_now)
        /\ sweepTodo' = sweepTodo \ {k}
    /\ UNCHANGED <<world, files, pc, drops, blocked, tracking_events, block_counts,
                   current_inode, position, sweep_now, fresh, calls, env, handled>>

\* lines 243-258: the snapshot replaces STATE_FILE
SaveState ==
    /\ pc = "sweep"
    /\ sweepTodo = {}
    /\ stateFile' = state_to_save
    /\ pc' = "save_tracking"
    /\ UNCHANGED <<world, trackingFile, memory, fresh, calls, env, handled>>

\* lines 260-262: the ledger replaces TRACKING_FILE, and the process exits
SaveTracking ==
    /\ pc = "save_tracking"
    /\ trackingFile' = [exists |-> TRUE, entries |-> tracking_events]
    /\ pc' = "idle"
    /\ Exit
    /\ UNCHANGED <<world, stateFile, fresh, env, handled>>

\* The process is terminated; its memory is lost, the files and the rule
\* store stay as they are.
Kill ==
    /\ pc # "idle"
    /\ kills < MaxKills
    /\ kills' = kills + 1
    /\ interrupted' = interrupted \cup
           {k \in DOMAIN blocked :
               stateFile.exists => k \notin DOMAIN stateFile.blocked}
    /\ pc' = "idle"
    /\ Exit
    /\ UNCHANGED <<world, files, fresh, appended, ticks, handled>>

Next ==
    \/ AppendLine
    \/ Tick
    \/ StartRun
    \/ SkipLine
    \/ GeoBlock
    \/ GeoAlreadyPermanent
    \/ DropObserve
    \/ DropBlock
    \/ NoAction
    \/ EndOfFile
    \/ SweepExpired
    \/ SweepKeep
    \/ SaveState
    \/ SaveTracking

\* Runs that are never terminated.
Spec == Init /\ [][Next]_vars

\* A step of the warden.
RunStep ==
    \/ StartRun
    \/ SkipLine
    \/ GeoBlock
    \/ GeoAlreadyPermanent
    \/ DropObserve
    \/ DropBlock
    \/ NoAction
    \/ EndOfFile
    \/ SweepExpired
    \/ SweepKeep
    \/ SaveState
    \/ SaveTracking

\* lines 236-239: rules.delete for the block of key k did not raise
DeleteSucceeds(k) ==
    /\ SweepExpired
    /\ calls'[Len(calls')].key = k
    /\ calls'[Len(calls')].ok

\* The scheduler keeps starting the warden and every run goes on to its
\* end; the rule store does not refuse the delete of a key's rule forever.
Fairness ==
    /\ WF_vars(RunStep)
    /\ \A k \in Keys : SF_vars(DeleteSucceeds(k))

SpecFair == Init /\ [][Next]_vars /\ Fairness

\* Runs that the scheduler or the operator may terminate at any point.
NextKill == Next \/ Kill
SpecKill == Init /\ [][NextKill]_vars

\* ----------------------------------------------------- damaged files
\* open(STATE_FILE, 'w') empties the file before json.dump fills it: a
\* process terminated in between leaves a file that is no JSON.
KillWritingState ==
    /\ pc = "sweep"
    /\ sweepTodo = {}
    /\ kills < MaxKills
    /\ kills' = kills + 1
    /\ stateFile' = Corrupt
    /\ pc' = "idle"
    /\ Exit
    /\ UNCHANGED <<world, trackingFile, fresh, appended, ticks, interrupted, handled>>

\* The same in open(TRACKING_FILE, 'w').
KillWritingTracking ==
    /\ pc = "save_tracking"
    /\ kills < MaxKills
    /\ kills' = kills + 1
    /\ trackingFile' = Corrupt
    /\ pc' = "idle"
    /\ Exit
    /\ UNCHANGED <<world, stateFile, fresh, appended, ticks, interrupted, handled>>

\* line 98: json.load raises JSONDecodeError outside any try block, and the
\* process ends with a traceback; every later start ends the same way.
AbortOnCorruptState ==
    /\ pc = "idle"
    /\ IsCorrupt(stateFile)
    /\ pc' = "aborted"
    /\ UNCHANGED <<world, files, memory, fresh, calls, env, handled>>

NextCorrupt == Next \/ KillWritingState \/ KillWritingTracking \/ AbortOnCorruptState
SpecCorrupt == Init /\ [][NextCorrupt]_vars

\* ------------------------------------------------- an unreadable log
\* The warden loses access to LOG_FILE; the firewall goes on writing it.
LoseAccess ==
    /\ Observing
    /\ logInode # 0
    /\ logInode' = 0
    /\ UNCHANGED <<log, ruleStore, now, files, pc, memory, fresh, calls, env, handled>>

\* line 141: os.stat raises (or open at line 144), outside any try block:
\* the process ends with a traceback after it loaded its files and before
\* it read a line.
AbortNoLog ==
    /\ pc = "idle"
    /\ ~IsCorrupt(stateFile)
    /\ ~LogAvailable
    /\ pc' = "aborted"
    /\ UNCHANGED <<world, files, memory, fresh, calls, env, handled>>

\* The clock stands still: the abort comes before the sweep reads it.
NextUnreadable ==
    \/ AppendLine
    \/ LoseAccess
    \/ StartRun
    \/ AbortNoLog
    \/ SkipLine
    \/ GeoBlock
    \/ GeoAlreadyPermanent
    \/ DropObserve
    \/ DropBlock
    \/ NoAction
    \/ EndOfFile
    \/ SweepKeep
    \/ SaveState
    \/ SaveTracking
SpecUnreadable == Init /\ [][NextUnreadable]_vars

\* ------------------------------------------------- more of the world
\* Traffic of a source the GeoIP database does not know, and of the
\* disallowed source on the second target.
OtherTraffic == {<<100, "C", "DROP:">>, <<101, "B", "DROP:">>}

AppendOther ==
    /\ Observing
    /\ appended < MaxAppend
    /\ \E t \in OtherTraffic : log' = Append(log, PolicyLine(t[1], t[2], now, t[3]))
    /\ appended' = appended + 1
    /\ UNCHANGED <<logInode, ruleStore, now, files, pc, memory, fresh, calls,
                   ticks, kills, interrupted, handled>>

\* The clock stands still: nothing expires.
NextGeo ==
    \/ AppendLine
    \/ AppendOther
    \/ StartRun
    \/ SkipLine
    \/ GeoBlock
    \/ GeoAlreadyPermanent
    \/ DropObserve
    \/ DropBlock
    \/ NoAction
    \/ EndOfFile
    \/ SweepKeep
    \/ SaveState
    \/ SaveTracking

SpecGeo == Init /\ [][NextGeo]_vars

\* ------------------------------------------------------- log rotation
\* logrotate renames the log file and the firewall opens a new, empty one
\* under the same name: another identity.
Rotate ==
    /\ Observing
    /\ logInode < MaxInode
    /\ logInode' = logInode + 1
    /\ log' = <<>>
    /\ handled' = 0
    /\ UNCHANGED <<ruleStore, now, files, pc, memory, fresh, calls, env>>

\* logrotate's copytruncate, or the operator's "> file": the file is cut to
\* no bytes and keeps its identity.
Truncate ==
    /\ Observing
    /\ Len(log) > 0
    /\ log' = <<>>
    /\ handled' = 0
    /\ UNCHANGED <<logInode, ruleStore, now, files, pc, memory, fresh, calls, env>>

NextRotate == Next \/ Rotate \/ Truncate
SpecRotate == Init /\ [][NextRotate]_vars

\* ------------------------------------------- runs in close succession
\* The firewall has written bytes that no completed run has read.
Unread ==
    IF stateFile.exists
    THEN IF stateFile.log_file_inode = Some(logInode)
         THEN stateFile.log_file_position < Len(log)
         ELSE TRUE
    ELSE TRUE

\* The clock moves only while there are unread bytes: a run that finds
\* nothing to read follows the run before it at once.
TickUnread == Unread /\ Tick

NextSuccession ==
    \/ AppendLine
    \/ TickUnread
    \/ StartRun
    \/ SkipLine
    \/ GeoBlock
    \/ GeoAlreadyPermanent
    \/ DropObserve
    \/ DropBlock
    \/ NoAction
    \/ EndOfFile
    \/ SweepExpired
    \/ SweepKeep
    \/ SaveState
    \/ SaveTracking

SpecSuccession == Init /\ [][NextSuccession]_vars

\* ------------------------------------------------- the detector alone
\* Drop times around the edge of the span: a second outside it, on it, a
\* second ago, now.
Times == {T0 - WINDOW_SPAN - 1, T0 - WINDOW_SPAN, T0 - 1, T0}
Windows ==
    {w \in UNION {[1..n -> Times] : n \in 0..WINDOW_LEN} :
        \A i \in 1..(Len(w) - 1) : w[i] <= w[i + 1]}

\* The warden is about to run over one unread line.  Earlier runs left any
\* window of 100:"A" (a full one within the span too: the create call had
\* failed), and no BlockRecord or a permanent one of that key.
InitDetector ==
    /\ \E t \in Traffic : log = <<PolicyLine(t[1], t[2], T0, t[3])>>
    /\ logInode = 1
    /\ now = T0
    /\ \E w \in Windows, permanent \in BOOLEAN :
        /\ stateFile = [exists |-> TRUE,
                        log_file_inode |-> Some(1),
                        log_file_position |-> 0,
                        drops |-> [k \in {Key(100, "A")} |-> SaveWindow(w)],
                        blocked |-> [k \in {k \in {Key(100, "A")} : permanent} |->
                                        SaveBlocked(DropRecord(1, 1, None))]]
        /\ ruleStore = {StoreRule(100, "A", 1) : k \in {k \in {Key(100, "A")} : permanent}}
        /\ trackingFile = [exists |-> TRUE,
                           entries |-> [i \in 1..(IF permanent THEN 1 ELSE 0) |->
                                           DropEntry(100, "A", 1, 1, None, PERMANENT_AFTER, 1)]]
    /\ nextRule = 2
    /\ nextUuid = 2
    /\ pc = "idle"
    /\ NoProcess
    /\ appended = 0
    /\ ticks = 0
    /\ kills = 0
    /\ interrupted = {}
    /\ handled = 0

\* The clock stands still and the log stays as it is: nothing expires.
NextDetector ==
    \/ StartRun
    \/ GeoBlock
    \/ DropObserve
    \/ DropBlock
    \/ NoAction
    \/ EndOfFile
    \/ SweepKeep
    \/ SaveState
    \/ SaveTracking

SpecDetector == InitDetector /\ [][NextDetector]_vars

\* --------------------------------------------------- the parser alone
\* Lines around the field contract: each field as the firewall writes it or
\* as something else, 9 to 11 fields, one or two "SRC=" tokens at the end.
VmidFields == {Digits(100), Text("vm100")}
DateFields == {DateField(T0 + LogZone), DateField(DATETIME_MIN), DateField(DATETIME_MAX),
               Text("22-Feb-2025")}
ZoneFields == {ZoneField(LogZone), ZoneField(3600), Text("UTC")}
PolicyFields == {Text("policy"), Text("ACCEPT:")}
VerdictFields == {Text("DROP:"), Text("ACCEPT:"), Text("REJECT:")}
SrcFields == {SrcField("A"), SrcField("B"), SrcField("999.1.1.1"), Text("DST=A")}
Fillers == {<<Text("IN=")>>, <<Text("IN="), Text("OUT=")>>,
            <<Text("IN="), Text("OUT="), Text("MAC=")>>}
ParseInputs ==
    {<<v, Digits(6), Text("tap"), d, z, p, a>> \o f \o <<s1>> \o tail :
        v \in VmidFields, d \in DateFields, z \in ZoneFields, p \in PolicyFields,
        a \in VerdictFields, f \in Fillers, s1 \in SrcFields,
        tail \in {<<>>, <<SrcField("A")>>}}

\* A first installation finds one line in the log.
InitParse ==
    /\ \E l \in ParseInputs : log = <<l>>
    /\ logInode = 1
    /\ ruleStore = {}
    /\ now = T0
    /\ InitFresh
    /\ pc = "idle"
    /\ NoProcess
    /\ appended = 0
    /\ ticks = 0
    /\ kills = 0
    /\ interrupted = {}
    /\ handled = 0

NextParse ==
    \/ StartRun
    \/ ParseRaises
    \/ SkipLine
    \/ GeoBlock
    \/ DropObserve
    \/ NoAction

SpecParse == InitParse /\ [][NextParse]_vars

\* ------------------------------------------------------------- claims
CountCalls(cs, op, k) == Cardinality({i \in 1..Len(cs) : cs[i].op = op /\ cs[i].key = k})
RulesOf(k) == {r \in ruleStore : Key(r.vmid, r.source) = k}
\* The step made one call to the rule store.
Called == Len(calls') = Len(calls) + 1
ThisCall == calls'[Len(calls')]
\* The process handles a policy line in this step.
HandlesEvent == HasLine /\ IsEvent(parse_log_line(line)) /\ position' = position + 1
\* The BlockRecords as the process holds them, or as it left them on disk.
CurrentBlocked == IF pc = "idle" THEN LoadState(stateFile).blocked ELSE blocked

\* C1: while a key has a non-permanent BlockRecord whose expiration has not
\* passed, handling an event of that key makes no call to the rule store,
\* leaves the BlockRecord as it is and adds no sample to the key's window.
C1_ActiveBlockSuppressesEvents ==
    [][(/\ HandlesEvent
        /\ key \in DOMAIN blocked
        /\ ~blocked[key].permanent
        /\ blocked[key].expiration # None
        /\ now <= blocked[key].expiration[1])
       => (/\ calls' = calls
           /\ blocked' = blocked
           /\ Get(drops', key, <<>>) = Get(drops, key, <<>>))]_vars

\* C2: after completed runs, whatever calls failed, the rules in the store
\* are exactly the rules the BlockRecords refer to, at most one per key.
C2_StoreMatchesBlockRecords ==
    pc = "idle" =>
        /\ {r.index : r \in ruleStore}
             = {CurrentBlocked[k].rule_index : k \in DOMAIN CurrentBlocked}
        /\ \A k \in Keys : Cardinality(RulesOf(k)) <= 1

\* C3: a key that a terminated run had blocked before its snapshot write
\* never gets a second rule in the store when the run is repeated.
C3_NoDuplicateAfterInterruptedRun ==
    \A k \in interrupted : Cardinality(RulesOf(k)) <= 1

\* C4: whenever the process is gone, every BlockRecord of the persisted
\* snapshot has its AuditEntry in the persisted ledger.
C4_CursorCommittedWithAudit ==
    (pc = "idle" /\ stateFile.exists) =>
        \A k \in DOMAIN stateFile.blocked :
            /\ trackingFile.exists
            /\ \E i \in 1..Len(trackingFile.entries) :
                   trackingFile.entries[i].unique_id = stateFile.blocked[k].unique_id

\* C5: in one run, each key gets at most one create call and at most one
\* delete call.
C5_OneCallPerKeyPerRun ==
    \A k \in Keys : CountCalls(calls, "create", k) <= 1 /\ CountCalls(calls, "delete", k) <= 1

\* C6: a failed call changes no block bookkeeping: after a failed create the
\* BlockRecords and the ledger are as before, after a failed delete the
\* BlockRecords and the windows are as before, and the run goes on with the
\* next line or the next key.
C6_FailedCallChangesNothing ==
    [][(Called /\ ~ThisCall.ok)
       => (/\ blocked' = blocked
           /\ tracking_events' = tracking_events
           /\ pc' = pc
           /\ (ThisCall.op = "create" => position' = position + 1)
           /\ (ThisCall.op = "delete" =>
                  drops' = drops /\ sweepTodo' = sweepTodo \ {ThisCall.key}))]_vars

\* A run in which a create failed and a delete failed.
C6_Witness ==
    /\ \E i \in 1..Len(calls) : calls[i].op = "create" /\ ~calls[i].ok
    /\ \E i \in 1..Len(calls) : calls[i].op = "delete" /\ ~calls[i].ok

\* C7: the sweep calls delete once for a non-permanent BlockRecord whose
\* expiration is strictly before the sweep's time, and on success removes
\* the record and the key's window; any other record it leaves alone, with
\* no call.
C7_SweepDeletesExpiredOnly ==
    [][\A k \in Keys :
         (pc = "sweep" /\ k \in sweepTodo /\ k \notin sweepTodo')
         => IF /\ ~blocked[k].permanent
               /\ blocked[k].expiration # None
               /\ blocked[k].expiration[1] < sweep_now
            THEN /\ CountCalls(calls, "delete", k) = 0
                 /\ Called
                 /\ ThisCall.op = "delete"
                 /\ ThisCall.key = k
                 /\ ThisCall.rule = blocked[k].rule_index
                 /\ IF ThisCall.ok
                    THEN /\ k \notin DOMAIN blocked'
                         /\ k \notin DOMAIN drops'
                         /\ blocked' = Del(blocked, k)
                    ELSE blocked' = blocked /\ drops' = drops
            ELSE /\ calls' = calls
                 /\ blocked' = blocked
                 /\ drops' = drops
                 /\ ruleStore' = ruleStore]_vars

\* The sweep is over: it deleted an expired block and kept a temporary one
\* that has not expired.
C7_Witness ==
    /\ pc = "save_tracking"
    /\ \E i \in 1..Len(calls) : calls[i].op = "delete" /\ calls[i].ok
    /\ \E k \in DOMAIN blocked :
           ~blocked[k].permanent /\ blocked[k].expiration[1] >= sweep_now

\* C8: a permanent BlockRecord stays as it is in every later state, no delete
\* call names its rule, and no create call is made for its key.
C8_PermanentIsTerminal ==
    [][\A k \in DOMAIN CurrentBlocked :
         CurrentBlocked[k].permanent
         => (/\ k \in DOMAIN CurrentBlocked'
             /\ CurrentBlocked'[k] = CurrentBlocked[k]
             /\ StoreRule(k[1], k[2], CurrentBlocked[k].rule_index) \in ruleStore'
             /\ (Called => (ThisCall.key # k
                             /\ ThisCall.rule # CurrentBlocked[k].rule_index)))]_vars

\* A later run has handled an event of a key whose permanent BlockRecord an
\* earlier run persisted, and has swept.
C8_Witness ==
    /\ pc = "save_tracking"
    /\ position > 0
    /\ IsEvent(parse_log_line(log[position]))
    /\ LET e == parse_log_line(log[position])[1]
           k == Key(e.vmid, e.src_ip)
       IN  /\ k \in DOMAIN blocked
           /\ blocked[k].permanent
           /\ trackingFile.exists
           /\ \E i \in 1..Len(trackingFile.entries) :
                  trackingFile.entries[i].unique_id = blocked[k].unique_id

\* C9: a block of the drop-rate path is permanent with no expiration when
\* the source's prior block count is 7 or more, expires 7 days after the
\* decision when the count is 5 or 6, and 1 hour after it otherwise.
C9_TierFromPriorCount ==
    [][(Called /\ ThisCall.op = "create" /\ ThisCall.path = "drop" /\ ThisCall.ok)
       => LET count == Get(block_counts, ThisCall.key[2], 0)
              rec == blocked'[ThisCall.key]
          IN  /\ rec.permanent = (count >= 7)
              /\ rec.expiration =
                    IF count >= 7 THEN None
                    ELSE IF count >= 5 THEN Some(now + 7 * 24 * 3600)
                    ELSE Some(now + 3600)]_vars

\* A drop-rate block of a source with 5 or 6 prior blocks.
C9_Witness ==
    \E i \in 1..Len(calls) :
        /\ calls[i].op = "create" /\ calls[i].path = "drop" /\ calls[i].ok
        /\ Get(block_counts, calls[i].key[2], 0) \in 5..6
        /\ calls[i].key \in DOMAIN blocked
        /\ blocked[calls[i].key].expiration = Some(now + LONG_BLOCK)

\* C10: the prior block count of every drop-rate decision is the number of
\* AuditEntries of the source that the ledger held when the decision was
\* made, those of the same run included.
C10_CountIsLedgerAtDecision ==
    \A i \in 1..Len(tracking_events) :
        tracking_events[i].reason = "multiple drops"
        => tracking_events[i].previous_blocks
             = CountSrc(SubSeq(tracking_events, 1, i - 1), tracking_events[i].src_ip)

\* C11: a window never holds more than 5 timestamps; a DROP that reaches the
\* detector (no disallowed country, no permanent block of the key) is
\* appended with the oldest of 5 evicted, any other event leaves the window
\* alone; and the detector calls create on that event exactly when the
\* window then holds 5 timestamps and newest minus oldest is at most 5
\* minutes.
C11_WindowAndDetector ==
    [][/\ \A k \in DOMAIN drops' : Len(drops'[k]) <= 5
       /\ HandlesEvent =>
            LET old == Get(drops, key, <<>>)
                new == Get(drops', key, <<>>)
                observed == /\ parsed.action = "DROP:"
                            /\ ~TakesGeoPath
                            /\ ~(key \in DOMAIN blocked /\ blocked[key].permanent)
            IN  /\ new = IF ~observed THEN old
                         ELSE IF Len(old) = 5 THEN Append(Tail(old), parsed.timestamp)
                         ELSE Append(old, parsed.timestamp)
                /\ (Called /\ ThisCall.op = "create" /\ ThisCall.path = "drop")
                     <=> (/\ observed
                          /\ Len(new) = 5
                          /\ new[5] - new[1] <= 5 * 60)]_vars

\* A DROP evicted the oldest of 5 timestamps and the detector fired on a
\* window that spans 5 minutes to the second.
C11_Witness ==
    /\ pc = "read"
    /\ Len(calls) = 1
    /\ calls[1].op = "create" /\ calls[1].path = "drop"
    /\ Len(stateFile.drops[Key(100, "A")]) = 5
    /\ Len(drops[Key(100, "A")]) = 5
    /\ drops[Key(100, "A")][5] - drops[Key(100, "A")][1] = WINDOW_SPAN

\* The run started with the persisted cursor at the end of the log file.
NothingToRead ==
    /\ pc \in {"read", "sweep"}
    /\ stateFile.exists
    /\ stateFile.log_file_inode = Some(current_inode)
    /\ stateFile.log_file_position = Len(log)
\* The BlockRecords of the persisted snapshot that are due for deletion.
DueInSnapshot ==
    {k \in DOMAIN stateFile.blocked :
        /\ ~stateFile.blocked[k].permanent
        /\ stateFile.blocked[k].expiration # None
        /\ stateFile.blocked[k].expiration[2] < now}

\* C12: a run that follows a completed run at once, with no new log bytes,
\* makes no call to the rule store and leaves the persisted snapshot as it is.
C12_RerunIsIdempotent ==
    [][NothingToRead
       => (calls' = calls /\ ruleStore' = ruleStore /\ stateFile' = stateFile)]_vars

\* C12, amended: such a run makes no create call, and a delete call only for
\* a BlockRecord of the snapshot that is due (the run before failed to delete
\* it); when the snapshot holds no such record the run makes no call and
\* leaves the rule store and the persisted snapshot as they are.
C12_RerunOnlyRetriesDeletes ==
    [][NothingToRead
       => (/\ Called => (ThisCall.op = "delete" /\ ThisCall.key \in DueInSnapshot)
           /\ DueInSnapshot = {}
                => (calls' = calls /\ ruleStore' = ruleStore
                    /\ stateFile' = stateFile))]_vars

\* A run found nothing to read, has swept the BlockRecords it loaded and made
\* no call.
C12_Witness ==
    /\ NothingToRead
    /\ pc = "sweep"
    /\ sweepTodo = {}
    /\ Len(log) > 0
    /\ DOMAIN blocked # {}
    /\ calls = <<>>

\* C13: a run starts at the persisted offset when the persisted identity is
\* the log file's and at 0 otherwise; when it has read to the end, every line
\* of the current file has been handled once, none twice and none skipped;
\* and it persists the offset it reached with the file's identity, whatever
\* rotation and truncation did between the runs.
C13_EveryLineOnce ==
    [][/\ (pc = "idle" /\ pc' = "read")
          => position' = IF stateFile.exists
                            /\ stateFile.log_file_inode = Some(logInode)
                         THEN stateFile.log_file_position ELSE 0
       /\ (pc = "read" /\ pc' = "sweep")
          => handled = Len(log)
       /\ (pc = "sweep" /\ pc' = "save_tracking")
          => (/\ stateFile'.log_file_inode = Some(logInode)
              /\ stateFile'.log_file_position = position)]_vars

\* C14: handling an event makes a create call on the geo path exactly when
\* the source resolves to a country code that is not in the allow-set and
\* the key has no permanent BlockRecord; a source of unknown country never
\* does.  When the call succeeds it is the one call for the event, the rule
\* is in the store, and the key's BlockRecord is permanent with no
\* expiration.
C14_GeoPathBlocksPermanently ==
    [][HandlesEvent =>
         LET country == get_country(parsed.src_ip)
             geo == Called /\ ThisCall.op = "create" /\ ThisCall.path = "geo"
         IN  /\ geo <=> (/\ country # None
                         /\ country[1] \notin allowed_countries
                         /\ ~(key \in DOMAIN blocked /\ blocked[key].permanent))
             /\ (geo /\ ThisCall.ok)
                  => (/\ ThisCall.key = key
                      /\ Cardinality(ruleStore' \ ruleStore) = 1
                      /\ blocked'[key].permanent
                      /\ blocked'[key].expiration = None
                      /\ blocked'[key].rule_index = ThisCall.rule)]_vars

\* A run passed over an event of the source of unknown country with no call
\* and then blocked the source of a disallowed country.
C14_Witness ==
    /\ pc = "read"
    /\ position = 2
    /\ parse_log_line(log[1]) = Some([vmid |-> 100, src_ip |-> "C", timestamp |-> now,
                                      action |-> "DROP:"])
    /\ Len(calls) = 1
    /\ calls[1].op = "create" /\ calls[1].path = "geo" /\ calls[1].ok
    /\ blocked[calls[1].key].permanent
    /\ blocked[calls[1].key].expiration = None

\* C15: a start of the warden always leads into reading the log; it starts
\* from the empty default state when the snapshot is absent or corrupt, and
\* from an empty ledger when the ledger is absent or corrupt.
C15_LoadFailuresAreNotFatal ==
    [][(pc = "idle" /\ pc' # "idle")
       => (/\ pc' = "read"
           /\ (~stateFile.exists \/ IsCorrupt(stateFile))
                => (drops' = <<>> /\ blocked' = <<>> /\ position' = 0)
           /\ (~trackingFile.exists \/ IsCorrupt(trackingFile))
                => tracking_events' = <<>>)]_vars

\* C16: while the log file cannot be read or identified, a start of the
\* warden ends in an abort, and no step calls the rule store or changes the
\* persisted snapshot or the persisted ledger.
C16_UnreadableLogChangesNothing ==
    [][logInode = 0
       => (/\ (pc = "idle" /\ pc' # "idle") => pc' = "aborted"
           /\ calls' = calls
           /\ ruleStore' = ruleStore
           /\ stateFile' = stateFile
           /\ trackingFile' = trackingFile)]_vars

\* The warden aborted on an unreadable log that holds unread lines, with
\* BlockRecords in its snapshot.
C16_Witness ==
    /\ pc = "aborted"
    /\ logInode = 0
    /\ stateFile.exists
    /\ DOMAIN stateFile.blocked # {}
    /\ stateFile.log_file_position < Len(log)

\* The field contract of a policy line, and the event the line stands for.
Contract(parts) ==
    IF Len(parts) < 10 THEN FALSE
    ELSE /\ parts[6] = <<"text", "policy">>
         /\ parts[7] \in {<<"text", "DROP:">>, <<"text", "ACCEPT:">>}
         /\ parts[1][1] = "digits"
         /\ parts[4][1] = "date" /\ parts[5][1] = "zone"
         /\ \E i \in 8..Len(parts) :
               /\ parts[i][1] = "SRC="
               /\ parts[i][2] \in {"A", "B", "C"}
               /\ \A j \in 8..(i - 1) : parts[j][1] # "SRC="
EventOf(parts) ==
    LET i == CHOOSE i \in 8..Len(parts) : parts[i][1] = "SRC=" /\ parts[i][2] \in {"A", "B", "C"}
    IN  [vmid |-> parts[1][2], src_ip |-> parts[i][2],
         timestamp |-> parts[4][2] - parts[5][2], action |-> parts[7][2]]

\* C17: parse_log_line answers the event (target, source, timestamp in UTC,
\* verdict) for a line that meets the whole field contract, and answers no
\* event, without raising, for a line that breaks any part of it.
C17_ParserTotalOnContract ==
    HasLine =>
        parse_log_line(line) = IF Contract(line) THEN <<EventOf(line)>> ELSE <<>>

\* C18: every BlockRecord has no expiration exactly when it is permanent: in
\* the memory of a run, in the persisted snapshot, and as a run loads it from
\* the snapshot.
C18_PermanentIffNoExpiration ==
    /\ \A k \in DOMAIN blocked :
           (blocked[k].expiration = None) <=> blocked[k].permanent
    /\ stateFile.exists =>
           \A k \in DOMAIN stateFile.blocked :
               /\ (stateFile.blocked[k].expiration = None)
                    <=> stateFile.blocked[k].permanent
               /\ (LoadBlocked(stateFile.blocked[k]).expiration = None)
                    <=> LoadBlocked(stateFile.blocked[k]).permanent

\* A run has loaded a snapshot that holds a permanent block beside a
\* temporary one.
C18_Witness ==
    /\ pc = "read"
    /\ calls = <<>>
    /\ \E k \in DOMAIN blocked : blocked[k].permanent /\ blocked[k].expiration = None
    /\ \E k \in DOMAIN blocked : ~blocked[k].permanent /\ blocked[k].expiration # None

\* C19: the persisted ledger changes only when a run completes, and then it
\* is the ledger persisted before the run, entry for entry, followed by one
\* new AuditEntry for each create call of the run that succeeded, in the
\* order of the calls.
C19_LedgerIsAppendOnly ==
    [][IF pc = "save_tracking" /\ pc' = "idle"
       THEN LET old == IF trackingFile.exists THEN trackingFile.entries ELSE <<>>
                new == trackingFile'.entries
                made == SelectSeq(calls, LAMBDA c : c.op = "create" /\ c.ok)
            IN  /\ trackingFile'.exists
                /\ Len(new) = Len(old) + Len(made)
                /\ SubSeq(new, 1, Len(old)) = old
                /\ \A j \in 1..Len(made) :
                       /\ new[Len(old) + j].rule_index = made[j].rule
                       /\ Key(new[Len(old) + j].vmid, new[Len(old) + j].src_ip) = made[j].key
       ELSE trackingFile' = trackingFile]_vars

\* Completed runs have added two entries to a ledger of seven.
C19_Witness ==
    /\ pc = "idle"
    /\ trackingFile.exists
    /\ Len(trackingFile.entries) = 9
    /\ trackingFile.entries[7] = PriorEntry(7)
    /\ trackingFile.entries[8].rule_index = 8
    /\ trackingFile.entries[9].rule_index = 9

\* The references the rule store may hand out in one behaviour.
RuleIds == 1..((CHOOSE n \in PriorCounts : \A m \in PriorCounts : m <= n) + MaxAppend)
\* The warden is not running, rule i is in the store, and the ledger has it
\* as the rule of a short or long block whose expiration has passed.
OverdueRule(i) ==
    /\ pc = "idle"
    /\ \E r \in ruleStore : r.index = i
    /\ trackingFile.exists
    /\ \E j \in 1..Len(trackingFile.entries) :
           /\ trackingFile.entries[j].rule_index = i
           /\ trackingFile.entries[j].expiration[1] = "iso"
           /\ trackingFile.entries[j].expiration[2] < now

\* C20: when the warden keeps being run and no delete fails forever, a rule
\* created for a short or long block whose expiration has passed is
\* eventually gone from the rule store.
C20_ExpiredRulesAreDeleted ==
    \A i \in RuleIds : OverdueRule(i) ~> (\A r \in ruleStore : r.index # i)
====
